---- MODULE Spec2Model ----
(***************************************************************************)
(* Frame hand-off of itsamecube: the appsink "new-sample" callback         *)
(* (src/src/appsink.rs, create_pipeline) writes decoded RGB samples into   *)
(* the shared Arc<RwLock<ImageRaw>> slot, and the per-tick Bevy system     *)
(* State::copy_image (src/src/main.rs) copies the slot into the texture.   *)
(*                                                                         *)
(* The callback is modelled statement by statement (pull, buffer, map,     *)
(* interpret, write lock, one step per zipped chunk, return), the consumer *)
(* tick likewise (if-let, read lock, to_vec, guard drop + set_changed).    *)
(*                                                                         *)
(* main_loop (appsink.rs 189-221) and monitor_bus (main.rs 273-298) are    *)
(* never called by the application (main_loop is private and unused, the   *)
(* monitor_bus system is commented out at main.rs 67), so the running      *)
(* program has no step that reads the bus or sets the pipeline to Null.    *)
(***************************************************************************)
EXTENDS Integers, Sequences, FiniteSets

\* Scaled stand-in for the 176 * 144 pixels of ImageRaw.
NPixels == 2
\* Cap on the number of new-sample callbacks the pipeline delivers.
MaxSamples == 2

\* Bytes per destination pixel: chunks_exact_mut(4), [u8; 176 * 144 * 4].
DstStride == 4
\* Bytes per source pixel: samples.chunks_exact(3), dest_chunk[..3].
SrcStride == 3

BufLen == NPixels * DstStride

Min(a, b) == IF a <= b THEN a ELSE b

\* [0u8; 176 * 144 * 4]
ZeroImage == [j \in 1..BufLen |-> 0]

\* Payload lengths the callback is exercised with: empty, short, not a
\* multiple of three, exact (NPixels * 3) and one byte too long.
PayloadLens == 0..(NPixels * SrcStride + 1)

\* Payload contents: an all-0xFF frame and a ramp whose byte j is j.
FillFF(len) == [j \in 1..len |-> 255]
FillRamp(len) == [j \in 1..len |-> j]
Payloads == {FillFF(l) : l \in PayloadLens} \cup {FillRamp(l) : l \in PayloadLens}

\* A sample handed to the callback: whether sample.buffer() is Some, whether
\* buffer.map_readable() succeeds, and the mapped bytes.
NoSample == [buffer |-> FALSE, mappable |-> FALSE, payload |-> <<>>]
Samples ==
    {NoSample}
    \cup {[buffer |-> TRUE, mappable |-> FALSE, payload |-> <<>>]}
    \cup {[buffer |-> TRUE, mappable |-> TRUE, payload |-> p] : p \in Payloads}

VARIABLES
    setup_done,      \* the startup system `setup` has run
    image_loaded,    \* images.get_mut(&image_handle) is Some
    asset,           \* the AppSinkImage asset: NotLoaded, Loaded, LoadFailed
    pipeline_state,  \* Uninitialized, Playing, Null
    streaming,       \* the pipeline's streaming task still pushes samples
    bus,             \* messages posted on the pipeline's bus, never popped
    image_raw,       \* contents of Arc<RwLock<ImageRaw>>
    rw_writer,       \* the RwLock is write-held
    rw_readers,      \* number of read guards alive
    pcP,             \* position of the new_sample callback
    sample,          \* the sample of the current (or last) callback
    idx,             \* iterations of the zip loop done so far
    flow,            \* the callback's last return: None, Ok, Error, Eos
    delivered,       \* callbacks invoked so far
    prior,           \* image_raw as it was when the current/last callback began
    last_ok,         \* payload of the last callback that returned Ok
    any_ok,          \* some callback has returned Ok
    pcC,             \* position of State::copy_image
    image_data,      \* image.data of the target texture
    images_changed   \* images.set_changed() has been called

vars == <<setup_done, image_loaded, asset, pipeline_state, streaming, bus,
          image_raw, rw_writer, rw_readers, pcP, sample, idx, flow, delivered,
          prior, last_ok, any_ok, pcC, image_data, images_changed>>

prodVars == <<image_raw, rw_writer, pcP, sample, idx, flow, delivered, prior,
              last_ok, any_ok, streaming, bus>>
consVars == <<pcC, image_data, images_changed>>
appVars == <<setup_done, image_loaded, asset, pipeline_state>>

Init ==
    /\ setup_done = FALSE
    /\ image_loaded = FALSE
    /\ asset = "NotLoaded"
    /\ pipeline_state = "Uninitialized"
    /\ streaming = FALSE
    /\ bus = <<>>
    /\ image_raw = ZeroImage
    /\ rw_writer = FALSE
    /\ rw_readers = 0
    /\ pcP = "idle"
    /\ sample = NoSample
    /\ idx = 0
    /\ flow = "None"
    /\ delivered = 0
    /\ prior = ZeroImage
    /\ last_ok = <<>>
    /\ any_ok = FALSE
    /\ pcC = "idle"
    /\ image_data = <<>>
    /\ images_changed = FALSE

-----------------------------------------------------------------------------
(* Application start-up                                                    *)

\* setup: image.resize(size) zero-fills 176*144*4 bytes, images.add(image),
\* asset_server.load("test.sinkimage") requests the AppSinkImage asset.
Setup ==
    /\ ~setup_done
    /\ setup_done' = TRUE
    /\ image_loaded' = TRUE
    /\ image_data' = ZeroImage
    /\ UNCHANGED <<asset, pipeline_state, rw_readers, pcC, images_changed>>
    /\ UNCHANGED prodVars

\* AppSinkImageLoader::load -> AppSinkImage::new with create_pipeline Ok:
\* zeroed slot, callback registered, pipeline set to Playing.
LoadAssetOk ==
    /\ setup_done
    /\ asset = "NotLoaded"
    /\ asset' = "Loaded"
    /\ image_raw' = ZeroImage
    /\ prior' = ZeroImage
    /\ pipeline_state' = "Playing"
    /\ streaming' = TRUE
    /\ UNCHANGED <<setup_done, image_loaded, bus, rw_writer, rw_readers, pcP,
                   sample, idx, flow, delivered, last_ok, any_ok>>
    /\ UNCHANGED consVars

\* AppSinkImage::new where create_pipeline(..) is Err (missing element, link
\* failure): .unwrap() panics in the loader, the asset never appears.
LoadAssetPanic ==
    /\ setup_done
    /\ asset = "NotLoaded"
    /\ asset' = "LoadFailed"
    /\ UNCHANGED <<setup_done, image_loaded, pipeline_state, rw_readers>>
    /\ UNCHANGED prodVars
    /\ UNCHANGED consVars

-----------------------------------------------------------------------------
(* std::sync::RwLock                                                       *)

\* image_raw.write() returns once no reader and no writer holds the lock.
WriteLockFree == ~rw_writer /\ rw_readers = 0

\* Variant of ReadLockFree: a read that does not wait for the writer.
ReadLockFree_IgnoresWriter == TRUE
\* image_raw.read() returns once no writer holds the lock.
ReadLockFree == ~rw_writer

-----------------------------------------------------------------------------
(* Frame producer: the new_sample closure                                  *)

\* map.as_slice_of::<u8>(): byte_slice_cast accepts a slice whose length is
\* a multiple of size_of::<u8>() = 1 (and whose alignment is 1).
AsSliceOfU8Ok(bytes) == Len(bytes) % 1 = 0

\* data.chunks_exact_mut(4).zip(samples.chunks_exact(3)): the zip ends with
\* the shorter side; chunks_exact drops an incomplete trailing chunk.
NumChunks(data, src) == Min(Len(data) \div DstStride, Len(src) \div SrcStride)

\* Variant of CopyChunk: a bulk copy with the source's stride on both sides.
CopyChunk_Bulk(data, src, i) ==
    [j \in 1..Len(data) |->
        IF j > SrcStride * i /\ j <= SrcStride * i + SrcStride
        THEN src[j]
        ELSE data[j]]
\* dest_chunk[..3].copy_from_slice(src_chunk) for the i-th (0-based) pair.
CopyChunk(data, src, i) ==
    [j \in 1..Len(data) |->
        IF j > DstStride * i /\ j <= DstStride * i + SrcStride
        THEN src[SrcStride * i + (j - DstStride * i)]
        ELSE data[j]]

\* GStreamer invokes the new-sample callback on its streaming thread.
NewSample_Invoke(s) ==
    /\ pipeline_state = "Playing"
    /\ streaming
    /\ pcP = "idle"
    /\ delivered < MaxSamples
    /\ sample' = s
    /\ prior' = image_raw
    /\ delivered' = delivered + 1
    /\ idx' = 0
    /\ pcP' = "pull"
    /\ UNCHANGED <<image_raw, rw_writer, rw_readers, flow, last_ok, any_ok,
                   streaming, bus>>
    /\ UNCHANGED appVars
    /\ UNCHANGED consVars

\* Failure exit of the callback: `?` returns Err(e) to the pipeline.  A flow
\* return other than Ok ends the streaming task that pushed the sample.
ReturnErr(e) ==
    /\ flow' = e
    /\ streaming' = FALSE
    /\ pcP' = "idle"

\* Variant of NewSample_PullOk: the write lock taken before validation.
NewSample_PullOk_Locked ==
    /\ pcP = "pull"
    /\ pcP' = "buffer"
    /\ rw_writer' = TRUE
    /\ UNCHANGED <<image_raw, rw_readers, sample, idx, flow, delivered,
                   prior, last_ok, any_ok, streaming, bus>>
    /\ UNCHANGED appVars
    /\ UNCHANGED consVars
\* appsink.pull_sample() is Ok.
NewSample_PullOk ==
    /\ pcP = "pull"
    /\ pcP' = "buffer"
    /\ UNCHANGED <<image_raw, rw_writer, rw_readers, sample, idx, flow,
                   delivered, prior, last_ok, any_ok, streaming, bus>>
    /\ UNCHANGED appVars
    /\ UNCHANGED consVars

\* appsink.pull_sample() is Err: map_err(|_| FlowError::Eos)?
NewSample_PullErr ==
    /\ pcP = "pull"
    /\ ReturnErr("Eos")
    /\ UNCHANGED <<image_raw, rw_writer, rw_readers, sample, idx, delivered,
                   prior, last_ok, any_ok, bus>>
    /\ UNCHANGED appVars
    /\ UNCHANGED consVars

\* sample.buffer() is Some.
NewSample_BufferOk ==
    /\ pcP = "buffer"
    /\ sample.buffer
    /\ pcP' = "map"
    /\ UNCHANGED <<image_raw, rw_writer, rw_readers, sample, idx, flow,
                   delivered, prior, last_ok, any_ok, streaming, bus>>
    /\ UNCHANGED appVars
    /\ UNCHANGED consVars

\* sample.buffer() is None: element_error! posts an error message on the bus,
\* the callback returns FlowError::Error.
NewSample_BufferNone ==
    /\ pcP = "buffer"
    /\ ~sample.buffer
    /\ bus' = Append(bus, "Failed to get buffer from appsink")
    /\ ReturnErr("Error")
    /\ UNCHANGED <<image_raw, rw_writer, rw_readers, sample, idx, delivered,
                   prior, last_ok, any_ok>>
    /\ UNCHANGED appVars
    /\ UNCHANGED consVars

\* buffer.map_readable() is Ok.
NewSample_MapOk ==
    /\ pcP = "map"
    /\ sample.mappable
    /\ pcP' = "interpret"
    /\ UNCHANGED <<image_raw, rw_writer, rw_readers, sample, idx, flow,
                   delivered, prior, last_ok, any_ok, streaming, bus>>
    /\ UNCHANGED appVars
    /\ UNCHANGED consVars

\* buffer.map_readable() is Err: element_error!, FlowError::Error.
NewSample_MapErr ==
    /\ pcP = "map"
    /\ ~sample.mappable
    /\ bus' = Append(bus, "Failed to map buffer readable")
    /\ ReturnErr("Error")
    /\ UNCHANGED <<image_raw, rw_writer, rw_readers, sample, idx, delivered,
                   prior, last_ok, any_ok>>
    /\ UNCHANGED appVars
    /\ UNCHANGED consVars

\* map.as_slice_of::<u8>(): Ok for every mapped byte slice; the map_err arm
\* (element_error!, FlowError::Error) is taken only when the cast fails.
NewSample_AsSlice ==
    /\ pcP = "interpret"
    /\ IF AsSliceOfU8Ok(sample.payload)
       THEN /\ pcP' = "write"
            /\ UNCHANGED <<flow, streaming, bus>>
       ELSE /\ bus' = Append(bus, "Failed to interprete buffer as S16 PCM")
            /\ ReturnErr("Error")
    /\ UNCHANGED <<image_raw, rw_writer, rw_readers, sample, idx, delivered,
                   prior, last_ok, any_ok>>
    /\ UNCHANGED appVars
    /\ UNCHANGED consVars

\* let mut data = image_raw.write().unwrap();
NewSample_WriteLock ==
    /\ pcP = "write"
    /\ WriteLockFree
    /\ rw_writer' = TRUE
    /\ idx' = 0
    /\ pcP' = "copy"
    /\ UNCHANGED <<image_raw, rw_readers, sample, flow, delivered, prior,
                   last_ok, any_ok, streaming, bus>>
    /\ UNCHANGED appVars
    /\ UNCHANGED consVars

\* One iteration of the for loop over the zipped chunks.
NewSample_CopyChunk ==
    /\ pcP = "copy"
    /\ idx < NumChunks(image_raw, sample.payload)
    /\ image_raw' = CopyChunk(image_raw, sample.payload, idx)
    /\ idx' = idx + 1
    /\ UNCHANGED <<rw_writer, rw_readers, pcP, sample, flow, delivered,
                   prior, last_ok, any_ok, streaming, bus>>
    /\ UNCHANGED appVars
    /\ UNCHANGED consVars

\* Variant of NewSample_ReturnOk: the write guard outlives the callback.
NewSample_ReturnOk_KeepsGuard ==
    /\ pcP = "copy"
    /\ idx >= NumChunks(image_raw, sample.payload)
    /\ flow' = "Ok"
    /\ last_ok' = sample.payload
    /\ any_ok' = TRUE
    /\ pcP' = "idle"
    /\ UNCHANGED <<image_raw, rw_writer, rw_readers, sample, idx, delivered,
                   prior, streaming, bus>>
    /\ UNCHANGED appVars
    /\ UNCHANGED consVars
\* Loop exhausted: Ok(gst::FlowSuccess::Ok); `data` (the write guard) drops.
NewSample_ReturnOk ==
    /\ pcP = "copy"
    /\ idx >= NumChunks(image_raw, sample.payload)
    /\ rw_writer' = FALSE
    /\ flow' = "Ok"
    /\ last_ok' = sample.payload
    /\ any_ok' = TRUE
    /\ pcP' = "idle"
    /\ UNCHANGED <<image_raw, rw_readers, sample, idx, delivered, prior,
                   streaming, bus>>
    /\ UNCHANGED appVars
    /\ UNCHANGED consVars

-----------------------------------------------------------------------------
(* Frame consumer: State::copy_image, run by the copy_texture system       *)

\* The if-let on (appsinks.get(..), images.get_mut(..)).
CopyImage_Begin ==
    /\ setup_done
    /\ pcC = "idle"
    /\ pcC' = IF asset = "Loaded" /\ image_loaded THEN "read" ELSE "notloaded"
    /\ UNCHANGED <<image_data, images_changed, rw_readers>>
    /\ UNCHANGED appVars
    /\ UNCHANGED prodVars

\* imagesink.image_raw.read() is Ok(guard).
CopyImage_ReadLock ==
    /\ pcC = "read"
    /\ ReadLockFree
    /\ rw_readers' = rw_readers + 1
    /\ pcC' = "locked"
    /\ UNCHANGED <<image_data, images_changed>>
    /\ UNCHANGED appVars
    /\ UNCHANGED prodVars

\* image.data = vide_image.to_vec();
CopyImage_ToVec ==
    /\ pcC = "locked"
    /\ image_data' = image_raw
    /\ pcC' = "copied"
    /\ UNCHANGED <<images_changed, rw_readers>>
    /\ UNCHANGED appVars
    /\ UNCHANGED prodVars

\* The read guard drops at the end of the if-let; images.set_changed().
CopyImage_End ==
    /\ pcC = "copied"
    /\ rw_readers' = rw_readers - 1
    /\ images_changed' = TRUE
    /\ pcC' = "idle"
    /\ UNCHANGED image_data
    /\ UNCHANGED appVars
    /\ UNCHANGED prodVars

\* Variant of CopyImage_NotLoaded: the skip branch empties the texture.
CopyImage_NotLoaded_Clears ==
    /\ pcC = "notloaded"
    /\ image_data' = <<>>
    /\ images_changed' = TRUE
    /\ pcC' = "idle"
    /\ UNCHANGED rw_readers
    /\ UNCHANGED appVars
    /\ UNCHANGED prodVars
\* else branch: println!("Not loaded"); then images.set_changed().
CopyImage_NotLoaded ==
    /\ pcC = "notloaded"
    /\ images_changed' = TRUE
    /\ pcC' = "idle"
    /\ UNCHANGED <<image_data, rw_readers>>
    /\ UNCHANGED appVars
    /\ UNCHANGED prodVars

-----------------------------------------------------------------------------

Next ==
    \/ Setup
    \/ LoadAssetOk
    \/ LoadAssetPanic
    \/ \E s \in Samples : NewSample_Invoke(s)
    \/ NewSample_PullOk
    \/ NewSample_PullErr
    \/ NewSample_BufferOk
    \/ NewSample_BufferNone
    \/ NewSample_MapOk
    \/ NewSample_MapErr
    \/ NewSample_AsSlice
    \/ NewSample_WriteLock
    \/ NewSample_CopyChunk
    \/ NewSample_ReturnOk
    \/ CopyImage_Begin
    \/ CopyImage_ReadLock
    \/ CopyImage_ToVec
    \/ CopyImage_End
    \/ CopyImage_NotLoaded

Spec == Init /\ [][Next]_vars

\* Steps of a running callback other than the lock acquisition, and of a
\* running tick other than the lock acquisition: the thread executing them is
\* scheduled.  The two acquisitions are strongly fair: the lock is granted to
\* a waiter that finds it free again and again.  The engine runs the
\* copy_texture system on every frame; when the pipeline pushes its next sample
\* is left open.
ProducerStep ==
    \/ NewSample_PullOk
    \/ NewSample_PullErr
    \/ NewSample_BufferOk
    \/ NewSample_BufferNone
    \/ NewSample_MapOk
    \/ NewSample_MapErr
    \/ NewSample_AsSlice
    \/ NewSample_CopyChunk
    \/ NewSample_ReturnOk

ConsumerStep ==
    \/ CopyImage_ToVec
    \/ CopyImage_End
    \/ CopyImage_NotLoaded

FairSpec ==
    /\ Spec
    /\ WF_vars(ProducerStep)
    /\ SF_vars(NewSample_WriteLock)
    /\ WF_vars(CopyImage_Begin)
    /\ WF_vars(ConsumerStep)
    /\ SF_vars(CopyImage_ReadLock)

-----------------------------------------------------------------------------
(* Properties                                                              *)

Pixels == 0..(NPixels - 1)
Channels == 1..SrcStride

RECURSIVE CopyFirst(_, _, _)
\* The buffer after the first n iterations of the loop.
CopyFirst(data, src, n) ==
    IF n = 0 THEN data ELSE CopyChunk(CopyFirst(data, src, n - 1), src, n - 1)

\* The buffer a callback that began on `data` leaves when it returns Ok.
AfterWrite(data, src) == CopyFirst(data, src, NumChunks(data, src))

\* C1: every copy the consumer takes is the slot entirely before or entirely
\* after the producer's current (or last) write, never a partly written one,
\* and is width*height*4 bytes long; no write is in progress while a read
\* guard is alive.
C1_NoTornRead ==
    /\ rw_readers > 0 => ~rw_writer
    /\ pcC = "copied" =>
        /\ Len(image_data) = BufLen
        /\ image_data \in {prior, AfterWrite(prior, sample.payload)}

\* A copy taken while the producer, with a frame already published, waits for
\* the write lock.
C1_Witness ==
    /\ pcC = "copied"
    /\ pcP = "write"
    /\ any_ok
    /\ image_data # ZeroImage
    /\ image_data # AfterWrite(prior, sample.payload)

\* C2: after a successful callback on a payload of exactly width*height*3
\* bytes the buffer is still width*height*4 bytes, pixel i's three colour
\* bytes are the sample's bytes 3i..3i+2, and its fourth byte is what it was
\* before; an all-0xFF sample on a zeroed slot gives [FF, FF, FF, 00].
C2_StridedCopy ==
    (pcP = "idle" /\ flow = "Ok" /\ Len(sample.payload) = NPixels * SrcStride) =>
        /\ Len(image_raw) = BufLen
        /\ \A i \in Pixels :
            /\ \A k \in Channels :
                image_raw[DstStride * i + k] = sample.payload[SrcStride * i + k]
            /\ image_raw[DstStride * i + DstStride] = prior[DstStride * i + DstStride]
        /\ (prior = ZeroImage /\ sample.payload = FillFF(NPixels * SrcStride)) =>
            SubSeq(image_raw, 1, DstStride) = <<255, 255, 255, 0>>

\* An all-0xFF frame published over a ramp frame.
C2_Witness ==
    /\ pcP = "idle"
    /\ flow = "Ok"
    /\ sample.payload = FillFF(NPixels * SrcStride)
    /\ prior = AfterWrite(ZeroImage, FillRamp(NPixels * SrcStride))
    /\ SubSeq(image_raw, 1, DstStride) = <<255, 255, 255, 0>>

\* C3: whenever no write is in progress, the colour bytes of every pixel of
\* the slot are those of the latest sample whose callback returned Ok, or all
\* zero when none has.
C3_LatestFrameOnly ==
    ~rw_writer =>
        IF any_ok
        THEN \A i \in Pixels : \A k \in Channels :
                /\ SrcStride * i + k <= Len(last_ok)
                /\ image_raw[DstStride * i + k] = last_ok[SrcStride * i + k]
        ELSE image_raw = ZeroImage

\* C4: a callback on a mapped payload whose length is not a multiple of 3
\* returns an error and leaves the slot as it was.
C4_RejectsRaggedPayload ==
    (/\ pcP = "idle"
     /\ delivered > 0
     /\ flow # "Eos"
     /\ sample.buffer
     /\ sample.mappable
     /\ Len(sample.payload) % SrcStride # 0) =>
        /\ flow = "Error"
        /\ image_raw = prior

\* C5: a callback on a zero-length payload returns an error and leaves the
\* slot as it was.
C5_RejectsEmptyPayload ==
    (/\ pcP = "idle"
     /\ delivered > 0
     /\ flow # "Eos"
     /\ sample.buffer
     /\ sample.mappable
     /\ Len(sample.payload) = 0) =>
        /\ flow = "Error"
        /\ image_raw = prior

\* C6: after a callback that failed on its sample (no buffer, not mappable,
\* not interpretable) the pipeline is still Playing and still delivers
\* samples to the callback.
C6_ErrorKeepsStreaming ==
    (pcP = "idle" /\ flow = "Error") =>
        /\ pipeline_state = "Playing"
        /\ streaming

\* C7: once an error message is on the bus of the Playing pipeline, the
\* pipeline eventually is Null, and once Null the slot never changes again.
C7_FaultLeadsToNull ==
    /\ (pipeline_state = "Playing" /\ Len(bus) > 0) ~> (pipeline_state = "Null")
    /\ [][pipeline_state = "Null" =>
            (pipeline_state' = "Null" /\ image_raw' = image_raw)]_vars

\* C8: a tick that finds the AppSinkImage or the Image not loaded goes
\* through the skip branch only, which changes neither the texture nor the
\* lock; a tick that finds both loaded takes the read lock, and the copy it
\* makes is the whole slot, byte for byte.
C8_SkipOrFullCopy ==
    /\ [](pcC \in {"read", "locked", "copied"} => (asset = "Loaded" /\ image_loaded))
    /\ [](pcC = "copied" => (Len(image_data) = BufLen /\ image_data = image_raw))
    /\ [][(pcC = "idle" /\ pcC' # "idle") =>
            (pcC' = "notloaded" <=> ~(asset = "Loaded" /\ image_loaded))]_vars
    /\ [][(pcC' # pcC /\ (pcC = "notloaded" \/ pcC' = "notloaded")) =>
            /\ image_data' = image_data
            /\ rw_readers' = rw_readers
            /\ rw_writer' = rw_writer]_vars

\* A second skipped tick, before the asset is there.
C8_Witness ==
    /\ pcC = "notloaded"
    /\ asset = "NotLoaded"
    /\ images_changed
    /\ Len(image_data) = BufLen

\* C9: the callback holds the write lock only in its copy loop: not while it
\* pulls, fetches the buffer, maps or interprets, not after it has returned;
\* and a callback that failed has not changed the slot.
C9_LockOnlyAroundCopy ==
    /\ pcP \in {"pull", "buffer", "map", "interpret", "write"} =>
        (~rw_writer /\ image_raw = prior)
    /\ rw_writer => pcP = "copy"
    /\ (pcP = "idle" /\ flow \in {"Error", "Eos"}) => image_raw = prior

\* A callback that failed after an earlier one had published a frame.
C9_Witness ==
    /\ pcP = "idle"
    /\ flow = "Error"
    /\ any_ok
    /\ image_raw # ZeroImage

\* C10: a callback waiting for the write lock eventually returns, and a tick
\* waiting for the read lock eventually ends.
C10_HandOffLive ==
    /\ (pcP = "write") ~> (pcP = "idle")
    /\ (pcC = "read") ~> (pcC = "idle")

\* Both sides contend: the callback waits for the write lock while the tick
\* holds a read guard.
C10_Witness ==
    /\ pcP = "write"
    /\ rw_readers = 1
    /\ pcC = "locked"

====
